---- MODULE Spec2Model ----
(***************************************************************************)
(* Branches of a repository: the Branch wrapper around a Reference, its    *)
(* operations on the reference store, the Branches iterator over a store   *)
(* cursor, and the order Branch values are compared by (src/src/branch.rs).*)
(*                                                                         *)
(* The reference store (libgit2, behind the raw::git_branch calls) and the *)
(* Repository / Reference types are collaborators whose code is not in     *)
(* branch.rs; the git_branch operators below state what the store is       *)
(* specified to do, and everything else follows branch.rs line by line.    *)
(* Store I/O failures are modelled where the iterator reads the store;     *)
(* the other store calls fail only for the reasons the store states.       *)
(***************************************************************************)
EXTENDS Integers, Sequences, FiniteSets, TLC

\* ------------------------------------------------------------------ bounds
\* Branch values the caller holds at once.
MaxBranches == 2
\* Longest branch name drawn for the comparison inputs, in bytes.
MaxNameLen == 2
\* Distinct positions of the reference-level order drawn for the inputs.
MaxRank == 2

\* ------------------------------------------------------------------- names
\* A name is a sequence of bytes.  master, foo and bar of the tests are the
\* one-letter names m, f and b; r is a remote-tracking branch.
NoName == <<>>
\* The null pointer, where the store takes an optional name.
NullPtr == <<-1>>
NameM == <<109>>
NameF == <<102>>
NameB == <<98>>
NameR == <<114>>
\* "f\0": a string with an embedded null byte.
NameNul == <<102, 0>>
LocalNames == {NameB, NameF, NameM}
RemoteNames == {NameR}
\* What a caller passes to rename() and to set_upstream(Some(_)).
RenameArgs == {NameB, NameM, NameNul}
UpstreamArgs == {NameR, NameNul}

\* ------------------------------------------------------------------- state
VARIABLES
    repoOpen,     \* the Repository value is alive
    locals,       \* names of the local branches of the store
    remotes,      \* names of the remote-tracking branches of the store
    head,         \* name of the local branch HEAD references
    upstreamCfg,  \* the store's upstream configuration of each local branch
    br,           \* the Branch values the caller holds
    lastSet,      \* history: what the last successful set_upstream of each branch set
    last,         \* history: the last operation, its arguments and its result
    it,           \* the Branches iterator and its store cursor
    yielded,      \* history: what next() returned Some(Ok(_)) for, in order
    oa, ob,       \* comparison inputs: two Branch values
    ores          \* comparison results

storeVars == <<locals, remotes, head, upstreamCfg>>
branchVars == <<repoOpen, locals, remotes, head, upstreamCfg, br, lastSet>>
iterVars == <<it, yielded>>
ordVars == <<oa, ob, ores>>
vars == <<repoOpen, locals, remotes, head, upstreamCfg, br, lastSet, last,
          it, yielded, oa, ob, ores>>

\* ------------------------------------------------------- strings and bytes
HasNul(s) == \E i \in 1..Len(s) : s[i] = 0

\* CString::new: fails on an embedded null byte.
CStringNew(s) ==
    IF HasNul(s) THEN [err |-> TRUE, val |-> NoName]
    ELSE [err |-> FALSE, val |-> s]

\* ::opt_cstr: None becomes the null pointer, Some(s) goes through CString::new.
opt_cstr(o) ==
    IF o.some THEN CStringNew(o.val) ELSE [err |-> FALSE, val |-> NullPtr]

None == [some |-> FALSE, val |-> NoName]
Some(v) == [some |-> TRUE, val |-> v]

\* ------------------------------------------------------ references, Branch
\* A Reference<'lt>: the store handle (the name and kind of the reference it
\* was made for) and the lifetime its type carries: "repo" borrows the
\* repository, "free" is a lifetime the repository does not bound.
Ref(n, k, lt) == [name |-> n, kind |-> k, lt |-> lt]

\* Binding::from_raw at the type the caller's signature gives it.
from_raw(raw, lt) == Ref(raw.name, raw.kind, lt)

\* Branch::wrap
wrap(reference) == [inner |-> reference]

\* Branch::get
get(b) == b.inner

NoBranch == [live |-> FALSE, b |-> wrap(Ref(NoName, "none", "none"))]
Held(b) == [live |-> TRUE, b |-> b]
Slots == 1..MaxBranches
FreeSlots == {s \in Slots : ~br[s].live}
\* The slot a newly returned Branch is bound to.
NewSlot == CHOOSE s \in FreeSlots : \A t \in FreeSlots : s <= t

\* --------------------------------------------------------------- the store
\* Each operator is one store call on the current store state: rc is the
\* call's return code (negative: the store refuses), the other fields are
\* its out-parameters and the store state it leaves.
Exists(ref) ==
    \/ ref.kind = "local" /\ ref.name \in locals
    \/ ref.kind = "remote" /\ ref.name \in remotes

Resolve(n) ==
    IF n \in locals THEN "local" ELSE IF n \in remotes THEN "remote" ELSE "none"

\* git_branch_is_head: 1 when HEAD references this local branch.
git_branch_is_head(ref) ==
    IF ref.kind = "local" /\ ref.name \in locals /\ ref.name = head THEN 1 ELSE 0

\* git_branch_delete: refuses a branch that is gone or checked out.
git_branch_delete(ref) ==
    IF Exists(ref) /\ git_branch_is_head(ref) # 1
    THEN [rc |-> 0,
          locals |-> IF ref.kind = "local" THEN locals \ {ref.name} ELSE locals,
          remotes |-> IF ref.kind = "remote" THEN remotes \ {ref.name} ELSE remotes,
          cfg |-> IF ref.kind = "local"
                  THEN [upstreamCfg EXCEPT ![ref.name] = NoName]
                  ELSE upstreamCfg]
    ELSE [rc |-> -1, locals |-> locals, remotes |-> remotes, cfg |-> upstreamCfg]

\* git_branch_move: renames a local branch, over an existing one only with
\* force; HEAD and the branch's upstream configuration follow the new name.
git_branch_move(ref, new, force) ==
    IF ref.kind = "local" /\ ref.name \in locals /\ (new \notin locals \/ force)
    THEN [rc |-> 0,
          ret |-> [name |-> new, kind |-> "local"],
          locals |-> (locals \ {ref.name}) \cup {new},
          head |-> IF head = ref.name THEN new ELSE head,
          cfg |-> IF new = ref.name THEN upstreamCfg
                  ELSE [upstreamCfg EXCEPT ![new] = upstreamCfg[ref.name],
                                           ![ref.name] = NoName]]
    ELSE [rc |-> -1, ret |-> [name |-> NoName, kind |-> "none"],
          locals |-> locals, head |-> head, cfg |-> upstreamCfg]

\* git_branch_name: the short name the handle was made for; refuses a
\* reference that is no branch reference.
git_branch_name(ref) ==
    IF ref.kind \in {"local", "remote"}
    THEN [rc |-> 0, ret |-> ref.name]
    ELSE [rc |-> -1, ret |-> NoName]

\* git_branch_upstream: a handle to the configured upstream, when one is
\* configured and still resolves.
git_branch_upstream(ref) ==
    IF /\ ref.kind = "local"
       /\ ref.name \in locals
       /\ upstreamCfg[ref.name] # NoName
       /\ Resolve(upstreamCfg[ref.name]) # "none"
    THEN [rc |-> 0, ret |-> [name |-> upstreamCfg[ref.name],
                             kind |-> Resolve(upstreamCfg[ref.name])]]
    ELSE [rc |-> -1, ret |-> [name |-> NoName, kind |-> "none"]]

\* git_branch_set_upstream: sets the upstream of a local branch to a branch
\* that resolves, or unsets it (the null pointer).
git_branch_set_upstream(ref, n) ==
    IF /\ ref.kind = "local"
       /\ ref.name \in locals
       /\ (n = NullPtr \/ Resolve(n) # "none")
    THEN [rc |-> 0,
          cfg |-> [upstreamCfg EXCEPT ![ref.name] = IF n = NullPtr THEN NoName ELSE n]]
    ELSE [rc |-> -1, cfg |-> upstreamCfg]

\* Repository::find_branch: the lookup of a branch by name and kind.
find_branch(n, k) ==
    IF Exists([name |-> n, kind |-> k])
    THEN [ok |-> TRUE, b |-> wrap(Ref(n, k, "repo"))]
    ELSE [ok |-> FALSE, b |-> NoBranch.b]

\* ------------------------------------------------------- Branch operations
\* Each operator is one method of Branch on the current store state: res is
\* what the method returns, the other fields the store state it leaves.
Err == [tag |-> "Err", val |-> NoName]
OkNone == [tag |-> "OkNone", val |-> NoName]
OkSome(v) == [tag |-> "OkSome", val |-> v]

IsCont(x) == x >= 128 /\ x <= 191

\* str::from_utf8(s).is_ok(), from position i on.
RECURSIVE Utf8From(_, _)
Utf8From(s, i) ==
    IF i > Len(s) THEN TRUE
    ELSE LET c == s[i] IN
        IF c < 128 THEN Utf8From(s, i + 1)
        ELSE IF c >= 194 /\ c <= 223
        THEN i + 1 <= Len(s) /\ IsCont(s[i + 1]) /\ Utf8From(s, i + 2)
        ELSE IF c >= 224 /\ c <= 239
        THEN /\ i + 2 <= Len(s)
             /\ IsCont(s[i + 1])
             /\ (c = 224 => s[i + 1] >= 160)
             /\ (c = 237 => s[i + 1] <= 159)
             /\ IsCont(s[i + 2])
             /\ Utf8From(s, i + 3)
        ELSE IF c >= 240 /\ c <= 244
        THEN /\ i + 3 <= Len(s)
             /\ IsCont(s[i + 1])
             /\ (c = 240 => s[i + 1] >= 144)
             /\ (c = 244 => s[i + 1] <= 143)
             /\ IsCont(s[i + 2])
             /\ IsCont(s[i + 3])
             /\ Utf8From(s, i + 4)
        ELSE FALSE

from_utf8_ok(s) == Utf8From(s, 1)

\* Branch::name_bytes
name_bytes(b) ==
    LET r == git_branch_name(get(b)) IN
    IF r.rc < 0 THEN Err ELSE OkSome(r.ret)

\* Branch::name that reports an undecodable name as an error.
name_err_on_undecodable(b) ==
    LET r == name_bytes(b) IN
    IF r.tag = "Err" THEN Err
    ELSE IF from_utf8_ok(r.val) THEN OkSome(r.val) ELSE Err

\* Branch::name
name(b) ==
    LET r == name_bytes(b) IN
    IF r.tag = "Err" THEN Err
    ELSE IF from_utf8_ok(r.val) THEN OkSome(r.val) ELSE OkNone

\* What the store answers Branch::is_head: git_branch_is_head, or an error
\* code when the store cannot read HEAD (fault "io").
git_branch_is_head_answer(ref, fault) ==
    IF fault = "io" THEN -1 ELSE git_branch_is_head(ref)

\* Branch::is_head that takes every answer but 0 for true.
is_head_nonzero(b, fault) == git_branch_is_head_answer(get(b), fault) # 0

\* Branch::is_head
is_head(b, fault) == git_branch_is_head_answer(get(b), fault) = 1

\* Branch::delete that does not look at the store's return code.
delete_ignores_error(b) ==
    LET r == git_branch_delete(get(b)) IN
    [res |-> "Ok", locals |-> r.locals, remotes |-> r.remotes, cfg |-> r.cfg]

\* Branch::delete
delete(b) ==
    LET r == git_branch_delete(get(b)) IN
    [res |-> IF r.rc < 0 THEN "StoreError" ELSE "Ok",
     locals |-> r.locals, remotes |-> r.remotes, cfg |-> r.cfg]

\* Branch::rename that wraps the receiver's handle, not the one the store
\* returned.
rename_wraps_receiver(b, new_branch_name, force) ==
    LET cs == CStringNew(new_branch_name)
        same == [ret |-> NoBranch.b, locals |-> locals, head |-> head,
                 cfg |-> upstreamCfg]
    IN  IF cs.err THEN [res |-> "InvalidName"] @@ same
        ELSE LET r == git_branch_move(get(b), cs.val, force) IN
            IF r.rc < 0 THEN [res |-> "StoreError"] @@ same
            ELSE [res |-> "Ok", ret |-> wrap(from_raw(get(b), get(b).lt)),
                  locals |-> r.locals, head |-> r.head, cfg |-> r.cfg]

\* The bytes of s before its first null byte: what C reads of it.
RECURSIVE UpToNul(_)
UpToNul(s) ==
    IF s = <<>> \/ Head(s) = 0 THEN <<>> ELSE <<Head(s)>> \o UpToNul(Tail(s))

\* Branch::rename that hands the name to the store unchecked.
rename_unchecked(b, new_branch_name, force) ==
    LET r == git_branch_move(get(b), UpToNul(new_branch_name), force) IN
    IF r.rc < 0
    THEN [res |-> "StoreError", ret |-> NoBranch.b, locals |-> locals,
          head |-> head, cfg |-> upstreamCfg]
    ELSE [res |-> "Ok", ret |-> wrap(from_raw(r.ret, get(b).lt)),
          locals |-> r.locals, head |-> r.head, cfg |-> r.cfg]

\* Branch::rename that always passes force to the store.
rename_always_forces(b, new_branch_name, force) ==
    LET cs == CStringNew(new_branch_name)
        same == [ret |-> NoBranch.b, locals |-> locals, head |-> head,
                 cfg |-> upstreamCfg]
    IN  IF cs.err THEN [res |-> "InvalidName"] @@ same
        ELSE LET r == git_branch_move(get(b), cs.val, TRUE) IN
            IF r.rc < 0 THEN [res |-> "StoreError"] @@ same
            ELSE [res |-> "Ok", ret |-> wrap(from_raw(r.ret, get(b).lt)),
                  locals |-> r.locals, head |-> r.head, cfg |-> r.cfg]

\* Branch::rename
rename(b, new_branch_name, force) ==
    LET cs == CStringNew(new_branch_name)
        same == [ret |-> NoBranch.b, locals |-> locals, head |-> head,
                 cfg |-> upstreamCfg]
    IN  IF cs.err THEN [res |-> "InvalidName"] @@ same
        ELSE LET r == git_branch_move(get(b), cs.val, force) IN
            IF r.rc < 0 THEN [res |-> "StoreError"] @@ same
            ELSE [res |-> "Ok", ret |-> wrap(from_raw(r.ret, get(b).lt)),
                  locals |-> r.locals, head |-> r.head, cfg |-> r.cfg]

\* Branch::upstream<'a>: the result's lifetime 'a is the caller's choice.
upstream(b, a) ==
    LET r == git_branch_upstream(get(b)) IN
    IF r.rc < 0 THEN [res |-> "StoreError", ret |-> NoBranch.b]
    ELSE [res |-> "Ok", ret |-> wrap(from_raw(r.ret, a))]

\* Branch::set_upstream that makes no store call for None.
set_upstream_skips_unset(b, upstream_name) ==
    LET cs == opt_cstr(upstream_name) IN
    IF cs.err THEN [res |-> "InvalidName", cfg |-> upstreamCfg]
    ELSE IF ~upstream_name.some THEN [res |-> "Ok", cfg |-> upstreamCfg]
    ELSE LET r == git_branch_set_upstream(get(b), cs.val) IN
        [res |-> IF r.rc < 0 THEN "StoreError" ELSE "Ok", cfg |-> r.cfg]

\* Branch::set_upstream
set_upstream(b, upstream_name) ==
    LET cs == opt_cstr(upstream_name) IN
    IF cs.err THEN [res |-> "InvalidName", cfg |-> upstreamCfg]
    ELSE LET r == git_branch_set_upstream(get(b), cs.val) IN
        [res |-> IF r.rc < 0 THEN "StoreError" ELSE "Ok", cfg |-> r.cfg]

\* ------------------------------------------------------------ the iterator
\* The store's kind tags and its end-of-iteration code.
GIT_BRANCH_LOCAL == 1
GIT_BRANCH_REMOTE == 2
GIT_ITEROVER == -31
\* What a store that breaks its contract may report instead of a kind tag.
BadTag == GIT_BRANCH_REMOTE + 1

\* The order the store enumerates its branch references in: by full
\* reference name, refs/heads before refs/remotes.
StoreOrder ==
    << [name |-> NameB, kind |-> "local"], [name |-> NameF, kind |-> "local"],
       [name |-> NameM, kind |-> "local"], [name |-> NameR, kind |-> "remote"] >>

Matches(e, filter) == filter = "all" \/ e.kind = filter

\* git_branch_iterator_new: a cursor over the branches that match the
\* filter, in the store's order.
git_branch_iterator_new(filter) ==
    LET Keep(e) == Exists(e) /\ Matches(e, filter) IN
    [snap |-> SelectSeq(StoreOrder, Keep), pos |-> 0, freed |-> 0]

TagOf(kind) == IF kind = "local" THEN GIT_BRANCH_LOCAL ELSE GIT_BRANCH_REMOTE

\* git_branch_next: the next reference and its kind tag, GIT_ITEROVER at the
\* end, or a failure.  fault is the environment's part: "io" is a failing
\* read, "badtag" a store that reports a tag outside its contract.
git_branch_next(cur, fault) ==
    LET none == [name |-> NoName, kind |-> "none"] IN
    IF fault = "io" THEN [rc |-> -1, ret |-> none, typ |-> 0, cur |-> cur]
    ELSE IF cur.pos >= Len(cur.snap)
    THEN [rc |-> GIT_ITEROVER, ret |-> none, typ |-> 0, cur |-> cur]
    ELSE LET e == cur.snap[cur.pos + 1] IN
        [rc |-> 0, ret |-> e,
         typ |-> IF fault = "badtag" THEN BadTag ELSE TagOf(e.kind),
         cur |-> [cur EXCEPT !.pos = cur.pos + 1]]

\* git_branch_iterator_free
git_branch_iterator_free(cur) == [cur EXCEPT !.freed = cur.freed + 1]

\* Branches::from_raw
Branches_from_raw(raw) == [raw |-> raw]

\* Branches::next that tags every entry Local.
next_tags_local(self, fault) ==
    LET r == git_branch_next(self.raw, fault)
        after == [self EXCEPT !.raw = r.cur]
        no == [item |-> NoBranch.b, typ |-> "none"]
    IN  IF r.rc = GIT_ITEROVER THEN [out |-> "None", self |-> after] @@ no
        ELSE IF r.rc < 0 THEN [out |-> "SomeErr", self |-> after] @@ no
        ELSE [out |-> "SomeOk", self |-> after,
              item |-> wrap(from_raw(r.ret, "repo")), typ |-> "Local"]

\* Branches::next that rewinds the cursor when the store reports the end.
next_restarts(self, fault) ==
    LET r == git_branch_next(self.raw, fault)
        after == [self EXCEPT !.raw = r.cur]
        no == [item |-> NoBranch.b, typ |-> "none"]
    IN  IF r.rc = GIT_ITEROVER
        THEN [out |-> "None", self |-> [self EXCEPT !.raw.pos = 0]] @@ no
        ELSE IF r.rc < 0 THEN [out |-> "SomeErr", self |-> after] @@ no
        ELSE IF r.typ = GIT_BRANCH_LOCAL
        THEN [out |-> "SomeOk", self |-> after,
              item |-> wrap(from_raw(r.ret, "repo")), typ |-> "Local"]
        ELSE IF r.typ = GIT_BRANCH_REMOTE
        THEN [out |-> "SomeOk", self |-> after,
              item |-> wrap(from_raw(r.ret, "repo")), typ |-> "Remote"]
        ELSE [out |-> "panic", self |-> after] @@ no

\* Branches::next that takes any tag other than Local for Remote.
next_defaults_remote(self, fault) ==
    LET r == git_branch_next(self.raw, fault)
        after == [self EXCEPT !.raw = r.cur]
        no == [item |-> NoBranch.b, typ |-> "none"]
    IN  IF r.rc = GIT_ITEROVER THEN [out |-> "None", self |-> after] @@ no
        ELSE IF r.rc < 0 THEN [out |-> "SomeErr", self |-> after] @@ no
        ELSE [out |-> "SomeOk", self |-> after,
              item |-> wrap(from_raw(r.ret, "repo")),
              typ |-> IF r.typ = GIT_BRANCH_LOCAL THEN "Local" ELSE "Remote"]

\* Branches::next: out is what the call does (None, Some(Err), Some(Ok) or a
\* panic), self the iterator it leaves.
next(self, fault) ==
    LET r == git_branch_next(self.raw, fault)
        after == [self EXCEPT !.raw = r.cur]
        no == [item |-> NoBranch.b, typ |-> "none"]
    IN  IF r.rc = GIT_ITEROVER THEN [out |-> "None", self |-> after] @@ no
        ELSE IF r.rc < 0 THEN [out |-> "SomeErr", self |-> after] @@ no
        ELSE IF r.typ = GIT_BRANCH_LOCAL
        THEN [out |-> "SomeOk", self |-> after,
              item |-> wrap(from_raw(r.ret, "repo")), typ |-> "Local"]
        ELSE IF r.typ = GIT_BRANCH_REMOTE
        THEN [out |-> "SomeOk", self |-> after,
              item |-> wrap(from_raw(r.ret, "repo")), typ |-> "Remote"]
        ELSE [out |-> "panic", self |-> after] @@ no

\* Drop for Branches that forgets the cursor.
drop_forgets(self) == self

\* Drop for Branches
drop(self) == [self EXCEPT !.raw = git_branch_iterator_free(self.raw)]

\* ------------------------------------------------------------------- order
\* A byte read as a signed char.
Signed(x) == IF x >= 128 THEN x - 256 ELSE x

\* str::cmp over signed bytes.
RECURSIVE str_cmp_signed_from(_, _, _)
str_cmp_signed_from(l, r, i) ==
    IF i > Len(l) /\ i > Len(r) THEN "Equal"
    ELSE IF i > Len(l) THEN "Less"
    ELSE IF i > Len(r) THEN "Greater"
    ELSE IF Signed(l[i]) < Signed(r[i]) THEN "Less"
    ELSE IF Signed(l[i]) > Signed(r[i]) THEN "Greater"
    ELSE str_cmp_signed_from(l, r, i + 1)

str_cmp_signed(l, r) == str_cmp_signed_from(l, r, 1)

\* str::cmp: byte-wise lexicographic, a proper prefix first.
RECURSIVE str_cmp_from(_, _, _)
str_cmp_from(l, r, i) ==
    IF i > Len(l) /\ i > Len(r) THEN "Equal"
    ELSE IF i > Len(l) THEN "Less"
    ELSE IF i > Len(r) THEN "Greater"
    ELSE IF l[i] < r[i] THEN "Less"
    ELSE IF l[i] > r[i] THEN "Greater"
    ELSE str_cmp_from(l, r, i + 1)

str_cmp(l, r) == str_cmp_from(l, r, 1)

\* Reference::cmp: the store's order of references, which looks at what a
\* reference points to (its rank here) and not at its name.
reference_cmp(x, y) ==
    IF x.rank < y.rank THEN "Less"
    ELSE IF x.rank > y.rank THEN "Greater"
    ELSE "Equal"

\* Ord::cmp for Branch with the named side sorted after the unnamed one.
cmp_unnamed_first(self, rhs) ==
    LET l == name(self)
        r == name(rhs)
    IN  IF l.tag = "OkSome" /\ r.tag = "OkSome" THEN str_cmp(l.val, r.val)
        ELSE IF l.tag = "OkSome" /\ r.tag \in {"OkNone", "Err"} THEN "Greater"
        ELSE IF l.tag \in {"OkNone", "Err"} /\ r.tag = "OkSome" THEN "Less"
        ELSE reference_cmp(get(self), get(rhs))

\* Ord::cmp for Branch without the (Err(_), Ok(Some(_))) pattern: that pair
\* falls to the comparison of the references.
cmp_missing_err_arm(self, rhs) ==
    LET l == name(self)
        r == name(rhs)
    IN  IF l.tag = "OkSome" /\ r.tag = "OkSome" THEN str_cmp(l.val, r.val)
        ELSE IF l.tag = "OkSome" /\ r.tag \in {"OkNone", "Err"} THEN "Less"
        ELSE IF l.tag = "OkNone" /\ r.tag = "OkSome" THEN "Greater"
        ELSE reference_cmp(get(self), get(rhs))

\* Ord::cmp for Branch whose last arm compares the name bytes.
cmp_unnamed_by_bytes(self, rhs) ==
    LET l == name(self)
        r == name(rhs)
    IN  IF l.tag = "OkSome" /\ r.tag = "OkSome" THEN str_cmp(l.val, r.val)
        ELSE IF l.tag = "OkSome" /\ r.tag \in {"OkNone", "Err"} THEN "Less"
        ELSE IF l.tag \in {"OkNone", "Err"} /\ r.tag = "OkSome" THEN "Greater"
        ELSE str_cmp(name_bytes(self).val, name_bytes(rhs).val)

\* Ord::cmp for Branch
cmp(self, rhs) ==
    LET l == name(self)
        r == name(rhs)
    IN  IF l.tag = "OkSome" /\ r.tag = "OkSome" THEN str_cmp(l.val, r.val)
        ELSE IF l.tag = "OkSome" /\ r.tag \in {"OkNone", "Err"} THEN "Less"
        ELSE IF l.tag \in {"OkNone", "Err"} /\ r.tag = "OkSome" THEN "Greater"
        ELSE reference_cmp(get(self), get(rhs))

\* PartialEq::eq for Branch as a derive would write it: equal references.
eq_by_reference(self, rhs) == reference_cmp(get(self), get(rhs)) = "Equal"

\* PartialEq::eq for Branch
eq(self, rhs) == cmp(self, rhs) = "Equal"

\* PartialOrd::partial_cmp for Branch
partial_cmp(self, rhs) == Some(cmp(self, rhs))

\* ----------------------------------------------------------------- history
Unset == [k |-> "unset", val |-> NoName]
SetTo(n) == [k |-> "set", val |-> n]

\* rc is the store's answer where the result does not tell it (is_head).
Last(op, res, slot, ret, arg) ==
    [op |-> op, res |-> res, slot |-> slot, ret |-> ret, arg |-> arg, rc |-> 0]

\* ----------------------------------------------------------------- actions
\* repo.find_branch(n, k): a Branch<'repo> for an existing branch.
FindBranch(n, k) ==
    /\ repoOpen
    /\ FreeSlots # {}
    /\ LET r == find_branch(n, k) IN
       /\ br' = IF r.ok THEN [br EXCEPT ![NewSlot] = Held(r.b)] ELSE br
       /\ last' = Last("find_branch", IF r.ok THEN "Ok" ELSE "StoreError",
                       0, IF r.ok THEN NewSlot ELSE 0, Some(n))
    /\ UNCHANGED <<repoOpen, storeVars, lastSet, iterVars, ordVars>>

\* b.delete(): the receiver is borrowed, not consumed.
Delete(s) ==
    /\ repoOpen
    /\ br[s].live
    /\ LET b == br[s].b
           o == delete(b)
       IN  /\ locals' = o.locals
           /\ remotes' = o.remotes
           /\ upstreamCfg' = o.cfg
           /\ lastSet' = IF o.res = "Ok" /\ get(b).kind = "local"
                         THEN [lastSet EXCEPT ![get(b).name] = Unset]
                         ELSE lastSet
           /\ last' = Last("delete", o.res, s, 0, Some(get(b).name))
    /\ UNCHANGED <<repoOpen, head, br, iterVars, ordVars>>

\* b.is_head()
IsHead(s, fault) ==
    /\ repoOpen
    /\ br[s].live
    /\ last' = [Last("is_head",
                     IF is_head(br[s].b, fault) THEN "true" ELSE "false",
                     s, 0, None)
                EXCEPT !.rc = git_branch_is_head_answer(get(br[s].b), fault)]
    /\ UNCHANGED <<branchVars, iterVars, ordVars>>

\* b.rename(n, force): the receiver is borrowed, the result is a new Branch.
Rename(s, n, force) ==
    /\ repoOpen
    /\ br[s].live
    /\ FreeSlots # {}
    /\ LET b == br[s].b
           o == rename(b, n, force)
           old == get(b).name
           new == get(o.ret).name
       IN  /\ locals' = o.locals
           /\ head' = o.head
           /\ upstreamCfg' = o.cfg
           /\ br' = IF o.res = "Ok" THEN [br EXCEPT ![NewSlot] = Held(o.ret)] ELSE br
           /\ lastSet' = IF o.res = "Ok" /\ new # old
                         THEN [lastSet EXCEPT ![new] = lastSet[old], ![old] = Unset]
                         ELSE lastSet
           /\ last' = Last(IF force THEN "rename_force" ELSE "rename", o.res, s,
                           IF o.res = "Ok" THEN NewSlot ELSE 0, Some(n))
    /\ UNCHANGED <<repoOpen, remotes, iterVars, ordVars>>

\* b.upstream(): the caller picks the lifetime of the result.
Upstream(s, a) ==
    /\ repoOpen
    /\ br[s].live
    /\ FreeSlots # {}
    /\ LET o == upstream(br[s].b, a) IN
       /\ br' = IF o.res = "Ok" THEN [br EXCEPT ![NewSlot] = Held(o.ret)] ELSE br
       /\ last' = Last("upstream", o.res, s,
                       IF o.res = "Ok" THEN NewSlot ELSE 0, None)
    /\ UNCHANGED <<repoOpen, storeVars, lastSet, iterVars, ordVars>>

\* b.set_upstream(o)
SetUpstream(s, o) ==
    /\ repoOpen
    /\ br[s].live
    /\ LET b == br[s].b
           r == set_upstream(b, o)
       IN  /\ upstreamCfg' = r.cfg
           /\ lastSet' = IF r.res = "Ok"
                         THEN [lastSet EXCEPT ![get(b).name] =
                                  IF o.some THEN SetTo(o.val) ELSE Unset]
                         ELSE lastSet
           /\ last' = Last("set_upstream", r.res, s, 0, o)
    /\ UNCHANGED <<repoOpen, locals, remotes, head, br, iterVars, ordVars>>

\* The caller drops a Branch: its Reference is released.
DropBranch(s) ==
    /\ br[s].live
    /\ br' = [br EXCEPT ![s] = NoBranch]
    /\ last' = Last("drop", "Ok", 0, 0, None)
    /\ UNCHANGED <<repoOpen, storeVars, lastSet, iterVars, ordVars>>

\* The caller drops the Repository: the borrow checker allows it once no
\* value whose type borrows the repository is alive.
DropRepo ==
    /\ repoOpen
    /\ \A s \in Slots : br[s].live => get(br[s].b).lt # "repo"
    /\ it.st \notin {"live", "panicked"}
    /\ repoOpen' = FALSE
    /\ last' = Last("drop_repo", "Ok", 0, 0, None)
    /\ UNCHANGED <<storeVars, br, lastSet, iterVars, ordVars>>

\* A method called on a Branch whose repository is gone reads freed memory:
\* any result, or a crash.
DanglingUse(s) ==
    /\ ~repoOpen
    /\ br[s].live
    /\ \E res \in {"Ok", "StoreError", "crash"} :
          last' = Last("use_after_free", res, s, 0, None)
    /\ UNCHANGED <<branchVars, iterVars, ordVars>>

\* repo.branches(filter): a new iterator over a new cursor.
RepoBranches(filter) ==
    /\ repoOpen
    /\ it.st \in {"none", "dropped"}
    /\ it' = [st |-> "live", filter |-> filter,
              self |-> Branches_from_raw(git_branch_iterator_new(filter)),
              ended |-> FALSE, failed |-> FALSE, unwound |-> FALSE,
              again |-> FALSE, unowned |-> 0]
    /\ yielded' = <<>>
    /\ last' = Last("branches", "Ok", 0, 0, None)
    /\ UNCHANGED <<branchVars, ordVars>>

\* iter.next().  unowned counts the reference handles that the store produced
\* for this iterator and that no Branch wraps.
IterNext(fault) ==
    /\ it.st = "live"
    /\ LET o == next(it.self, fault)
           r == git_branch_next(it.self.raw, fault)
           wrapped == o.out = "SomeOk" /\ get(o.item) = from_raw(r.ret, "repo")
       IN
       /\ it' = [it EXCEPT !.self = o.self,
                           !.st = IF o.out = "panic" THEN "panicked" ELSE "live",
                           !.ended = it.ended \/ o.out = "None",
                           !.again = it.again \/ it.ended,
                           !.unowned = IF r.rc = 0 /\ ~wrapped
                                       THEN it.unowned + 1 ELSE it.unowned,
                           !.failed = it.failed \/ o.out \in {"SomeErr", "panic"}]
       /\ yielded' = IF o.out = "SomeOk"
                     THEN Append(yielded, [b |-> o.item, typ |-> o.typ])
                     ELSE yielded
       /\ last' = [Last("next", o.out, 0, 0, None)
                   EXCEPT !.rc = r.typ]
    /\ UNCHANGED <<branchVars, ordVars>>

\* The iterator goes out of scope, or is dropped while next()'s panic unwinds.
DropIter ==
    /\ it.st \in {"live", "panicked"}
    /\ it' = [it EXCEPT !.self = drop(it.self),
                        !.st = "dropped",
                        !.unwound = it.st = "panicked"]
    /\ last' = Last("drop_iter", "Ok", 0, 0, None)
    /\ UNCHANGED <<branchVars, yielded, ordVars>>

\* A store call answers, or fails to read the store.
StoreFaults == {"none", "io"}
LookupArgs == (LocalNames \X {"local"}) \cup (RemoteNames \X {"remote"})
Lifetimes == {"repo", "free"}
SetUpstreamArgs == {None} \cup {Some(n) : n \in UpstreamArgs}

\* ------------------------------------------------------------------- specs
IdleIter ==
    [st |-> "none", filter |-> "all",
     self |-> Branches_from_raw([snap |-> <<>>, pos |-> 0, freed |-> 0]),
     ended |-> FALSE, failed |-> FALSE, unwound |-> FALSE,
     again |-> FALSE, unowned |-> 0]
IdleOrd == [op |-> "none", ab |-> "none", ba |-> "none", eq |-> FALSE,
            pc |-> Some("none"),
            nb |-> Err, nm |-> Err]

InitStore ==
    /\ repoOpen = TRUE
    /\ locals = {NameF, NameM}
    /\ remotes = {NameR}
    /\ head = NameM
    /\ upstreamCfg = [n \in LocalNames |-> NoName]
    /\ br = [s \in Slots |-> NoBranch]
    /\ lastSet = [n \in LocalNames |-> Unset]
    /\ last = Last("init", "Ok", 0, 0, None)

Init ==
    /\ InitStore
    /\ it = IdleIter
    /\ yielded = <<>>
    /\ oa = 0 /\ ob = 0 /\ ores = IdleOrd

Next ==
    \/ \E a \in LookupArgs : FindBranch(a[1], a[2])
    \/ \E s \in Slots : Delete(s)
    \/ \E s \in Slots, x \in StoreFaults : IsHead(s, x)
    \/ \E s \in Slots, n \in RenameArgs, f \in BOOLEAN : Rename(s, n, f)
    \/ \E s \in Slots, a \in Lifetimes : Upstream(s, a)
    \/ \E s \in Slots, o \in SetUpstreamArgs : SetUpstream(s, o)
    \/ \E s \in Slots : DropBranch(s)
    \/ DropRepo
    \/ \E s \in Slots : DanglingUse(s)

Spec == Init /\ [][Next]_vars

\* The iterator over a repository nobody modifies meanwhile.
Filters == {"all", "local", "remote"}
Faults == {"none", "io", "badtag"}

InitIter ==
    /\ repoOpen = TRUE
    /\ locals \in {S \in SUBSET LocalNames : NameM \in S}
    /\ remotes \in SUBSET RemoteNames
    /\ head = NameM
    /\ upstreamCfg = [n \in LocalNames |-> NoName]
    /\ br = [s \in Slots |-> NoBranch]
    /\ lastSet = [n \in LocalNames |-> Unset]
    /\ last = Last("init", "Ok", 0, 0, None)
    /\ it = IdleIter
    /\ yielded = <<>>
    /\ oa = 0 /\ ob = 0 /\ ores = IdleOrd

NextIter ==
    \/ \E f \in Filters : RepoBranches(f)
    \/ \E x \in Faults : IterNext(x)
    \/ DropIter

SpecIter == InitIter /\ [][NextIter]_vars

\* The same, for a caller that keeps calling next() on the iterator it holds.
SpecIterFair == SpecIter /\ WF_vars(IterNext("none"))

\* Comparisons of two Branch values, the inputs drawn at the start.
OrdBytes == {97, 169, 195}
OrdNames == UNION {[1..k -> OrdBytes] : k \in 1..MaxNameLen}
\* A Reference with a place in the reference order.  Kind "other" is a
\* reference that is no branch reference, wrapped by Branch::wrap.
RankedRef(n, k, rank) == [name |-> n, kind |-> k, lt |-> "repo", rank |-> rank]
OrdInputs ==
    {wrap(RankedRef(n, "local", rank)) : n \in OrdNames, rank \in 1..MaxRank}
    \cup {wrap(RankedRef(n, "remote", rank)) :
              n \in [1..1 -> OrdBytes], rank \in 1..MaxRank}
    \cup {wrap(RankedRef(<<97>>, "other", rank)) : rank \in 1..MaxRank}

ApplyCmp ==
    /\ ores' = [IdleOrd EXCEPT !.op = "cmp", !.ab = cmp(oa, ob), !.ba = cmp(ob, oa)]
    /\ UNCHANGED <<branchVars, last, iterVars, oa, ob>>

ApplyEq ==
    /\ ores' = [IdleOrd EXCEPT !.op = "eq", !.eq = eq(oa, ob)]
    /\ UNCHANGED <<branchVars, last, iterVars, oa, ob>>

ApplyPartialCmp ==
    /\ ores' = [IdleOrd EXCEPT !.op = "partial_cmp", !.pc = partial_cmp(oa, ob)]
    /\ UNCHANGED <<branchVars, last, iterVars, oa, ob>>

\* oa.name_bytes() and oa.name()
ApplyName ==
    /\ ores' = [IdleOrd EXCEPT !.op = "name", !.nb = name_bytes(oa), !.nm = name(oa)]
    /\ UNCHANGED <<branchVars, last, iterVars, oa, ob>>

InitOrd ==
    /\ InitStore
    /\ it = IdleIter
    /\ yielded = <<>>
    /\ oa \in OrdInputs
    /\ ob \in OrdInputs
    /\ ores = IdleOrd

NextOrd == ApplyCmp \/ ApplyEq \/ ApplyPartialCmp \/ ApplyName

SpecOrd == InitOrd /\ [][NextOrd]_vars

\* ================================================================== claims

\* ---------------------------------------------------------------------- C1
\* C1: the cursor of a Branches iterator is released exactly once, by the
\* drop of the iterator and not before: it is unreleased for as long as
\* next() can still be called (also after next() returned None or Err, and
\* while a panic of next() unwinds), and released once after the drop.
C1_CursorReleasedOnce ==
    /\ it.st \in {"live", "panicked"} => it.self.raw.freed = 0
    /\ it.st = "dropped" => it.self.raw.freed = 1

\* An iterator dropped before it was exhausted, after it yielded an entry.
C1_Witness ==
    /\ it.st = "dropped"
    /\ ~it.ended
    /\ Len(yielded) > 0
    /\ it.self.raw.pos < Len(it.self.raw.snap)
    /\ it.self.raw.freed = 1

\* ---------------------------------------------------------------------- C2
\* C2: every Branch value that is alive belongs to a repository that is
\* still open.
C2_BranchWithinRepo == \A s \in Slots : br[s].live => repoOpen

\* ---------------------------------------------------------------------- C3
\* C3: right after a successful rename of a branch named old to a different
\* name new, the returned Branch reports the name new, the lookup of old
\* fails, and the store holds new and not old.
C3_RenameMovesName ==
    (/\ last.op \in {"rename", "rename_force"}
     /\ last.res = "Ok"
     /\ get(br[last.slot].b).name # last.arg.val)
    => LET old == get(br[last.slot].b).name
           new == last.arg.val
       IN  /\ last.ret \in Slots
           /\ br[last.ret].live
           /\ name(br[last.ret].b) = OkSome(new)
           /\ ~find_branch(old, "local").ok
           /\ new \in locals
           /\ old \notin locals

\* The smoke test's rename: foo renamed, without force, to the unused bar.
C3_Witness ==
    /\ last.op = "rename"
    /\ last.res = "Ok"
    /\ get(br[last.slot].b).name = NameF
    /\ last.arg.val = NameB
    /\ name(br[last.ret].b) = OkSome(NameB)
    /\ ~find_branch(NameF, "local").ok

\* ---------------------------------------------------------------------- C4
ValidLocal(s) ==
    /\ repoOpen
    /\ br[s].live
    /\ get(br[s].b).kind = "local"
    /\ get(br[s].b).name \in locals

\* C4 as stated: upstream() of a local branch succeeds exactly when the most
\* recent successful set_upstream on it was Some(name), and then resolves
\* to a branch of that name; otherwise it fails with a store error.
C4_UpstreamIffLastSetSome ==
    \A s \in Slots : ValidLocal(s) =>
        LET set == lastSet[get(br[s].b).name]
            o == upstream(br[s].b, "repo")
        IN  /\ (o.res = "Ok") <=> (set.k = "set")
            /\ o.res = "Ok" => name(o.ret) = OkSome(set.val)
            /\ o.res # "Ok" => o.res = "StoreError"

\* C4 amended: upstream() of a local branch succeeds exactly when the most
\* recent successful set_upstream on it (under its present or an earlier
\* name) was Some(name) and a branch of that name still exists, and then
\* resolves to a branch of that name; otherwise it fails with a store error.
C4_UpstreamIffSetAndResolves ==
    \A s \in Slots : ValidLocal(s) =>
        LET set == lastSet[get(br[s].b).name]
            o == upstream(br[s].b, "repo")
        IN  /\ (o.res = "Ok") <=> (set.k = "set" /\ Resolve(set.val) # "none")
            /\ o.res = "Ok" => name(o.ret) = OkSome(set.val)
            /\ o.res # "Ok" => o.res = "StoreError"

\* upstream() has just succeeded on a branch whose upstream was set, and
\* the returned Branch has the name that was set.
C4_Witness ==
    /\ last.op = "upstream"
    /\ last.res = "Ok"
    /\ ValidLocal(last.slot)
    /\ lastSet[get(br[last.slot].b).name] = SetTo(NameR)
    /\ name(br[last.ret].b) = OkSome(NameR)

\* ---------------------------------------------------------------------- C5
Position(e) == CHOOSE i \in 1..Len(StoreOrder) : StoreOrder[i] = e
Entry(y) == [name |-> get(y.b).name, kind |-> get(y.b).kind]
KindTag(k) == IF k = "local" THEN "Local" ELSE "Remote"

\* C5: as long as the store has not failed, what next() has yielded are
\* branches of the repository that match the filter, each at most once, in
\* the store's order, each with the tag of its kind; and once next() has
\* returned None, every branch that matches the filter has been yielded.
C5_IterationComplete ==
    ~it.failed =>
        /\ \A i \in 1..Len(yielded) :
              /\ Exists(Entry(yielded[i]))
              /\ Matches(Entry(yielded[i]), it.filter)
              /\ yielded[i].typ = KindTag(get(yielded[i].b).kind)
        /\ \A i, j \in 1..Len(yielded) :
              i < j => Position(Entry(yielded[i])) < Position(Entry(yielded[j]))
        /\ it.ended =>
              \A k \in 1..Len(StoreOrder) :
                  (Exists(StoreOrder[k]) /\ Matches(StoreOrder[k], it.filter))
                  => \E i \in 1..Len(yielded) : Entry(yielded[i]) = StoreOrder[k]

\* The smoke test's count: an unfiltered iteration over three local branches
\* and a remote one, driven to None.
C5_Witness ==
    /\ it.ended
    /\ ~it.failed
    /\ it.filter = "all"
    /\ Len(yielded) = 4

\* ---------------------------------------------------------------------- C6
\* C6: a rename or set_upstream(Some(_)) whose name has an embedded null
\* byte returns InvalidName and changes nothing: not the branch set, not
\* the upstream configuration, not HEAD, not a Branch the caller holds.
C6_InvalidNameNoStoreCall ==
    [][(/\ last'.op \in {"rename", "rename_force", "set_upstream"}
        /\ last'.arg.some
        /\ HasNul(last'.arg.val))
       => (/\ last'.res = "InvalidName"
           /\ UNCHANGED <<storeVars, br, lastSet, repoOpen>>
           /\ br'[last'.slot].live)]_vars

\* A rename with an embedded null byte has just been refused.
C6_Witness ==
    /\ last.op = "rename"
    /\ last.arg = Some(NameNul)
    /\ last.res = "InvalidName"
    /\ br[last.slot].live

\* ---------------------------------------------------------------------- C7
Named(b) == name(b).tag = "OkSome"

\* The order of two byte strings by their first differing byte, a proper
\* prefix before the longer string.
ByteLex(l, r) ==
    LET n == IF Len(l) < Len(r) THEN Len(l) ELSE Len(r)
        diff == {i \in 1..n : l[i] # r[i]}
    IN  IF diff # {}
        THEN LET i == CHOOSE d \in diff : \A e \in diff : d <= e IN
             IF l[i] < r[i] THEN "Less" ELSE "Greater"
        ELSE IF Len(l) < Len(r) THEN "Less"
        ELSE IF Len(l) > Len(r) THEN "Greater"
        ELSE "Equal"

\* C7: when both names decode, cmp is the byte-wise lexicographic order of
\* the two names, whatever the references and their kinds are.
C7_NamedByBytes ==
    (ores.op = "cmp" /\ Named(oa) /\ Named(ob))
    => /\ ores.ab = ByteLex(name(oa).val, name(ob).val)
       /\ ores.ba = ByteLex(name(ob).val, name(oa).val)

\* Two names that differ in a byte above 127, on references that the
\* reference order puts the other way round.
C7_Witness ==
    /\ ores.op = "cmp"
    /\ name(oa) = OkSome(<<97>>)
    /\ name(ob) = OkSome(<<195, 169>>)
    /\ reference_cmp(get(oa), get(ob)) = "Greater"
    /\ ores.ab = "Less"

\* ---------------------------------------------------------------------- C8
\* C8: a branch whose name decodes is Less than one whose name is Ok(None)
\* or Err, and that one is Greater than it, however the references compare.
C8_NamedBeforeUnnamed ==
    (ores.op = "cmp" /\ Named(oa) /\ ~Named(ob))
    => (ores.ab = "Less" /\ ores.ba = "Greater")

\* A named branch against one whose name is an error, the references in
\* the opposite order.
C8_Witness ==
    /\ ores.op = "cmp"
    /\ Named(oa)
    /\ name(ob) = Err
    /\ reference_cmp(get(oa), get(ob)) = "Greater"
    /\ ores.ab = "Less"
    /\ ores.ba = "Greater"

\* ---------------------------------------------------------------------- C9
Reverse(o) == IF o = "Less" THEN "Greater" ELSE IF o = "Greater" THEN "Less" ELSE o
Le(x, y) == cmp(x, y) \in {"Less", "Equal"}

\* C9: cmp is a total order of branches with decodable, undecodable and
\* erroring names: a branch is Equal to itself, cmp(a, b) is the reverse of
\* cmp(b, a), and a <= b and b <= c give a <= c.
C9_TotalOrder ==
    ores.op = "cmp" =>
        /\ cmp(oa, oa) = "Equal"
        /\ ores.ab = Reverse(ores.ba)
        /\ \A c \in OrdInputs : (Le(oa, ob) /\ Le(ob, c)) => Le(oa, c)

\* An erroring name against a decodable one, compared both ways.
C9_Witness ==
    /\ ores.op = "cmp"
    /\ name(oa) = Err
    /\ Named(ob)
    /\ reference_cmp(get(oa), get(ob)) = "Less"
    /\ ores.ab = "Greater"
    /\ ores.ba = "Less"

\* --------------------------------------------------------------------- C10
\* C10: a == b exactly when cmp(a, b) is Equal, partial_cmp(a, b) is
\* Some(cmp(a, b)), and two branches whose names decode are equal exactly
\* when the names are the same bytes, whatever handles they wrap.
C10_EqualityFromOrder ==
    /\ ores.op = "eq" =>
          /\ ores.eq <=> (cmp(oa, ob) = "Equal")
          /\ (Named(oa) /\ Named(ob)) => (ores.eq <=> (name(oa).val = name(ob).val))
    /\ ores.op = "partial_cmp" => ores.pc = Some(cmp(oa, ob))

\* Two branches of the same name on different handles are equal.
C10_Witness ==
    /\ ores.op = "eq"
    /\ Named(oa)
    /\ name(oa) = name(ob)
    /\ get(oa) # get(ob)
    /\ reference_cmp(get(oa), get(ob)) # "Equal"
    /\ ores.eq

\* --------------------------------------------------------------------- C11
HeadBranch(b) ==
    get(b).kind = "local" /\ get(b).name = head /\ head \in locals

\* C11: is_head() returns true or false, true exactly when the store
\* answers 1; when the store answers at all, that is exactly for the branch
\* HEAD references, so the branches the caller holds that report true all
\* name that one branch; and the call changes nothing of the store.
C11_IsHeadOnlyHead ==
    [][/\ \A s, t \in Slots :
             (/\ repoOpen /\ br[s].live /\ br[t].live
              /\ is_head(br[s].b, "none") /\ is_head(br[t].b, "none"))
             => (get(br[s].b).name = head /\ get(br[t].b).name = head)
       /\ last'.op = "is_head" =>
             /\ last'.res \in {"true", "false"}
             /\ (last'.res = "true") <=> (last'.rc = 1)
             /\ last'.rc >= 0 =>
                   ((last'.res = "true") <=> HeadBranch(br[last'.slot].b))
             /\ UNCHANGED <<storeVars, br, lastSet, repoOpen>>]_vars

\* is_head() has just answered true for the HEAD branch while the caller
\* holds a sibling branch that reports false.
C11_Witness ==
    /\ last.op = "is_head"
    /\ last.res = "true"
    /\ HeadBranch(br[last.slot].b)
    /\ \E t \in Slots :
          /\ br[t].live
          /\ get(br[t].b).kind = "local"
          /\ get(br[t].b).name \in locals
          /\ ~is_head(br[t].b, "none")

ReportedTag == last.rc
TagName(t) == IF t = GIT_BRANCH_LOCAL THEN "Local" ELSE "Remote"

\* C13: a next() whose store call succeeds with a tag other than Local or
\* Remote panics and yields nothing for that step, neither Ok nor Err; and
\* every next() that yields Ok yields the entry with exactly the Local or
\* Remote tag the store reported for it.
C13_BadTagPanics ==
    [][last'.op = "next" =>
        /\ (it.st = "live" /\ last'.rc \notin {0, GIT_BRANCH_LOCAL, GIT_BRANCH_REMOTE})
           => /\ last'.res = "panic"
              /\ it'.st = "panicked"
              /\ yielded' = yielded
        /\ (it.st = "live" /\ last'.res = "SomeOk")
           => /\ last'.rc \in {GIT_BRANCH_LOCAL, GIT_BRANCH_REMOTE}
              /\ Len(yielded') = Len(yielded) + 1
              /\ yielded'[Len(yielded')].typ = TagName(last'.rc)
              /\ SubSeq(yielded', 1, Len(yielded)) = yielded
        /\ (it.st = "live" /\ last'.res = "panic")
           => last'.rc \notin {0, GIT_BRANCH_LOCAL, GIT_BRANCH_REMOTE}]_vars

\* next() has yielded a Local entry with its tag and then panicked on a tag
\* outside the contract, yielding nothing for that entry.
C13_Witness ==
    /\ last.op = "next"
    /\ last.res = "panic"
    /\ ReportedTag = BadTag
    /\ it.st = "panicked"
    /\ Len(yielded) > 0
    /\ \A i \in 1..Len(yielded) : yielded[i].typ = "Local"
    /\ Len(yielded) < it.self.raw.pos

\* --------------------------------------------------------------------- C14
\* The branches a new unfiltered enumeration would yield.
Enumerated ==
    LET snap == git_branch_iterator_new("all").snap IN
    {snap[i] : i \in 1..Len(snap)}
Lookup(ref) == find_branch(ref.name, ref.kind).ok
CheckedOut(ref) == ref.kind = "local" /\ ref.name = head

LookupRefs == {[name |-> a[1], kind |-> a[2]] : a \in LookupArgs}

\* C14: delete() on a branch that exists and is not checked out returns Ok
\* and removes exactly that branch: a lookup of its name then fails, an
\* enumeration omits it, and every other branch, HEAD and the other
\* branches' configuration are as before.  delete() on the checked-out branch
\* or on a branch that no longer exists returns a store error and changes
\* nothing.
C14_DeleteRemovesExactlyIt ==
    [][\A s \in Slots, ref \in LookupRefs :
        (/\ last'.op = "delete"
         /\ last'.slot = s
         /\ get(br[s].b).name = ref.name
         /\ get(br[s].b).kind = ref.kind) =>
            /\ (Exists(ref) /\ ~CheckedOut(ref)) =>
                  /\ last'.res = "Ok"
                  /\ ~Lookup(ref)'
                  /\ Enumerated' = Enumerated \ {ref}
                  /\ ref \in Enumerated
                  /\ locals' \cup remotes' = (locals \cup remotes) \ {ref.name}
                  /\ head' = head
                  /\ \A n \in LocalNames \ {ref.name} :
                        upstreamCfg'[n] = upstreamCfg[n]
            /\ (~Exists(ref) \/ CheckedOut(ref)) =>
                  /\ last'.res = "StoreError"
                  /\ UNCHANGED storeVars
                  /\ Enumerated' = Enumerated
            /\ br' = br]_vars

\* The smoke test's last step: a branch other than HEAD was deleted, and the
\* branches beside it are still there.
C14_Witness ==
    /\ last.op = "delete"
    /\ last.res = "Ok"
    /\ last.arg = Some(NameF)
    /\ ~Lookup([name |-> NameF, kind |-> "local"])
    /\ Lookup([name |-> NameM, kind |-> "local"])
    /\ Lookup([name |-> NameR, kind |-> "remote"])

\* --------------------------------------------------------------------- C15
\* The receiver in slot s is an existing local branch named old, and new is
\* the name of another existing local branch.
Collides(s, old, new) ==
    /\ get(br[s].b).kind = "local"
    /\ get(br[s].b).name = old
    /\ old \in locals
    /\ new \in locals
    /\ new # old

\* C15: rename(new, force) of an existing local branch onto the name of
\* another existing branch.  Without force it is a store error, no Branch is
\* returned, and names, HEAD and upstream configuration are as before.  With
\* force it succeeds: the old name is gone, one branch named new exists and
\* it is the renamed one (it has the renamed branch's upstream configuration,
\* HEAD follows it, and the returned Branch is the local branch new).
C15_RenameCollision ==
    [][\A s \in Slots, old, new \in LocalNames :
        (/\ last'.op \in {"rename", "rename_force"}
         /\ last'.slot = s
         /\ last'.arg = Some(new)
         /\ Collides(s, old, new)) =>
            /\ last'.op = "rename" =>
                  /\ last'.res = "StoreError"
                  /\ last'.ret = 0
                  /\ UNCHANGED <<storeVars, br>>
            /\ last'.op = "rename_force" =>
                  /\ last'.res = "Ok"
                  /\ locals' = locals \ {old}
                  /\ remotes' = remotes
                  /\ upstreamCfg'[new] = upstreamCfg[old]
                  /\ upstreamCfg'[old] = NoName
                  /\ \A n \in LocalNames \ {old, new} :
                        upstreamCfg'[n] = upstreamCfg[n]
                  /\ head' = IF head = old THEN new ELSE head
                  /\ br[last'.ret] = NoBranch
                  /\ br'[last'.ret].live
                  /\ get(br'[last'.ret].b) = Ref(new, "local", get(br[s].b).lt)
                  /\ \A t \in Slots \ {last'.ret} : br'[t] = br[t]]_vars

\* A forced rename of foo onto the existing branch m succeeded: foo is gone
\* and the one branch m carries the upstream that was set on foo.
C15_Witness ==
    /\ last.op = "rename_force"
    /\ last.res = "Ok"
    /\ last.arg = Some(NameM)
    /\ get(br[last.slot].b).name = NameF
    /\ get(br[last.ret].b).name = NameM
    /\ locals = {NameM}
    /\ upstreamCfg[NameM] = NameR

\* --------------------------------------------------------------------- C16
\* The methods of Branch that reach the store, as the history names them.
ReceiverOps ==
    {"is_head", "delete", "rename", "rename_force", "set_upstream", "upstream"}
\* Results that neither observed nor changed a branch.
Refused == {"StoreError", "InvalidName", "false"}

\* C16: once rename() or delete() has succeeded on a receiver, the next
\* operation invoked on that same receiver neither observes nor mutates a
\* live branch: it is refused and the repository is as before.
C16_ReceiverConsumed ==
    [][\A s \in Slots :
        (/\ last.op \in {"rename", "rename_force", "delete"}
         /\ last.res = "Ok"
         /\ last.slot = s
         /\ last'.op \in ReceiverOps
         /\ last'.slot = s) =>
            /\ last'.res \in Refused
            /\ UNCHANGED storeVars]_vars

\* --------------------------------------------------------------------- C17
\* The scalar value that the bytes of seg would encode, read as one UTF-8
\* sequence of Len(seg) bytes.
ScalarOf(seg) ==
    IF Len(seg) = 1 THEN seg[1]
    ELSE IF Len(seg) = 2 THEN (seg[1] - 192) * 64 + (seg[2] - 128)
    ELSE IF Len(seg) = 3
    THEN (seg[1] - 224) * 4096 + (seg[2] - 128) * 64 + (seg[3] - 128)
    ELSE (seg[1] - 240) * 262144 + (seg[2] - 128) * 4096
         + (seg[3] - 128) * 64 + (seg[4] - 128)

\* The UTF-8 encoding of the scalar value c.
Utf8Encode(c) ==
    IF c < 128 THEN <<c>>
    ELSE IF c < 2048 THEN <<192 + (c \div 64), 128 + (c % 64)>>
    ELSE IF c < 65536
    THEN <<224 + (c \div 4096), 128 + ((c \div 64) % 64), 128 + (c % 64)>>
    ELSE <<240 + (c \div 262144), 128 + ((c \div 4096) % 64),
           128 + ((c \div 64) % 64), 128 + (c % 64)>>

IsScalar(c) == c >= 0 /\ c <= 1114111 /\ ~(c >= 55296 /\ c <= 57343)

\* s is the concatenation of the encodings of some scalar values.
RECURSIVE WellFormed(_)
WellFormed(s) ==
    \/ s = <<>>
    \/ \E k \in 1..4 :
          /\ k <= Len(s)
          /\ IsScalar(ScalarOf(SubSeq(s, 1, k)))
          /\ Utf8Encode(ScalarOf(SubSeq(s, 1, k))) = SubSeq(s, 1, k)
          /\ WellFormed(SubSeq(s, k + 1, Len(s)))

\* C17: name() is Err exactly when name_bytes() is Err, Ok(None) exactly
\* when name_bytes() returns bytes that are not well-formed UTF-8, and
\* otherwise Ok(Some(s)) with s the returned bytes.
C17_NameThreeOutcomes ==
    ores.op = "name" =>
        /\ ores.nm.tag \in {"Err", "OkNone", "OkSome"}
        /\ (ores.nm.tag = "Err") <=> (ores.nb.tag = "Err")
        /\ (ores.nm.tag = "OkNone") <=>
              (ores.nb.tag = "OkSome" /\ ~WellFormed(ores.nb.val))
        /\ (ores.nm.tag = "OkSome") <=>
              (ores.nb.tag = "OkSome" /\ WellFormed(ores.nb.val))
        /\ ores.nm.tag = "OkSome" => ores.nm.val = ores.nb.val
        /\ ores.nb = name_bytes(oa)
        /\ (ores.nb.tag = "Err") <=> (git_branch_name(get(oa)).rc < 0)

\* name() of a branch whose stored name is a lone continuation byte.
C17_Witness ==
    /\ ores.op = "name"
    /\ ores.nb = OkSome(<<169>>)
    /\ ores.nm = OkNone

\* --------------------------------------------------------------------- C18
Unnamed(b) == name(b).tag \in {"OkNone", "Err"}

\* C18: when neither name() is Ok(Some(_)), whether each is Ok(None) or
\* Err, cmp is the order of the two underlying references, in both
\* directions, whatever the stored name bytes are.
C18_UnnamedByReference ==
    (ores.op = "cmp" /\ Unnamed(oa) /\ Unnamed(ob))
    => /\ ores.ab = reference_cmp(get(oa), get(ob))
       /\ ores.ba = reference_cmp(get(ob), get(oa))
       /\ (ores.ab = "Less") <=> (get(oa).rank < get(ob).rank)
       /\ (ores.ab = "Equal") <=> (get(oa).rank = get(ob).rank)
       /\ (ores.ab = "Greater") <=> (get(oa).rank > get(ob).rank)

\* An undecodable name against an erroring one, the reference order against
\* the order of the name bytes.
C18_Witness ==
    /\ ores.op = "cmp"
    /\ name(oa) = OkNone
    /\ name(ob) = Err
    /\ ByteLex(get(oa).name, get(ob).name) = "Greater"
    /\ get(oa).rank < get(ob).rank
    /\ ores.ab = "Less"
    /\ ores.ba = "Greater"

\* --------------------------------------------------------------------- C19
\* C19: every reference handle the store has produced for next() is owned by
\* exactly one Branch: none is left unowned, on the panic path too, and the
\* Branches next() has yielded are as many as the handles the store produced.
C19_HandlesOwnedOnce ==
    it.st # "none" =>
        /\ it.unowned = 0
        /\ Len(yielded) = it.self.raw.pos
====
